---- MODULE Spec2Model ----
(***************************************************************************)
(* A model of sysinit: the Unit entity (descriptor generation, lifecycle   *)
(* operations issued through Command / CommandEngine) and the UnitManager  *)
(* registry, together with the filesystem and the host shell they act on.  *)
(*                                                                         *)
(* Text is modelled as a sequence of tokens (a str), a descriptor as the   *)
(* sequence of its lines.  An Optional value is None (the empty tuple) or  *)
(* Some(v) (the one-element tuple).                                        *)
(***************************************************************************)
EXTENDS Integers, Sequences, FiniteSets, TLC

VARIABLES
    heap,    \* the Unit objects constructed so far, by object identity 1..Len(heap)
    units,   \* UnitManager.units: the dict, as its items in insertion order
    fs,      \* the filesystem: existing directories and the files in them
    last     \* the most recent call: operation, target, commands issued, outcome

vars == <<heap, units, fs, last>>

-----------------------------------------------------------------------------
(* Bounds of the model *)

\* how many Unit objects are constructed in one behaviour
MaxUnits == 2

\* how many of the commands of one call the host lets fail
MaxFailures == 1

-----------------------------------------------------------------------------
(* Python values *)

None == <<>>

Some(v) == <<v>>

\* a call without keyword arguments
NoKwargs == [k \in {} |-> None]

\* Python truthiness of an Optional[str]: None and "" are falsy
Truthy(o) == o /= None /\ o[1] /= <<>>

\* str(x) of an Optional[str], as an f-string formats it
Format(o) == IF o = None THEN <<"None">> ELSE o[1]

\* dict.get(key) / dict.get(key, default) on a configuration record
Get(config, key) == IF key \in DOMAIN config THEN Some(config[key]) ELSE None

GetOr(config, key, default) == IF key \in DOMAIN config THEN config[key] ELSE default

\* a keyword argument, or the default of the signature
Arg(kwargs, key, default) == IF key \in DOMAIN kwargs THEN kwargs[key] ELSE default

-----------------------------------------------------------------------------
(* utils.py *)

\* os.path.join: a path is the tuple of its components
join_path(dir, file) == Append(dir, file)

\* os.path.exists: a directory is a one-component path, a file lies in a directory
path_exists(f, abs_path) ==
    IF Len(abs_path) = 1 THEN abs_path \in f.dirs ELSE abs_path \in DOMAIN f.files

-----------------------------------------------------------------------------
(* command.py, command_manager.py *)

\* A shell command line, as the program composes it: the words of the command,
\* the file or service it names, and the text it echoes (if any)
Line(argv, target, stdin) == [argv |-> argv, target |-> target, stdin |-> stdin]

\* Command.__init__: the engine is built from the command's own flags
Command(command_str, kwargs) ==
    [command_str |-> command_str,
     sudo        |-> Arg(kwargs, "sudo", FALSE),
     description |-> Arg(kwargs, "description", command_str),
     verbose     |-> Arg(kwargs, "verbose", TRUE),
     engine      |-> [verbose |-> Arg(kwargs, "verbose", TRUE),
                      dry_run |-> Arg(kwargs, "dry_run", FALSE)]]

\* subprocess.run's CompletedProcess
Completed(returncode, stdout, stderr) ==
    [returncode |-> returncode, stdout |-> stdout, stderr |-> stderr]

\* what the host shell does with single quotes inside echo '...': every quote
\* toggles quoting and is dropped; an odd number of them is a syntax error
Quotes(line) == Len(SelectSeq(line, LAMBDA t : t = "'"))

RECURSIVE QuoteCount(_)
QuoteCount(text) == IF text = <<>> THEN 0 ELSE Quotes(Head(text)) + QuoteCount(Tail(text))

ShellEcho(text) == [i \in DOMAIN text |-> SelectSeq(text[i], LAMBDA t : t /= "'")]

IsWrite(line) == line.argv = <<"sudo", "echo", "|", "sudo", "tee", ">", "/dev/null">>

\* a host on which no command line is a removal: rm exits 0 and removes nothing
IsRemove_Never(line) == FALSE

IsRemove(line) == line.argv = <<"sudo", "rm">>

\* whether the host can exit 0 on this command line at all
CanSucceed(f, line) ==
    /\ IsWrite(line) => <<line.target[1]>> \in f.dirs /\ QuoteCount(line.stdin) % 2 = 0
    /\ IsRemove(line) => line.target \in DOMAIN f.files

\* subprocess.run(cmd, shell=True): the effect of a command line on the
\* filesystem when it exits 0 (a non-zero exit leaves the filesystem alone)
ShellEffect(f, line, result) ==
    IF result.returncode /= 0 THEN f
    ELSE IF IsWrite(line)
         THEN [f EXCEPT !.files = [p \in DOMAIN f.files \cup {line.target} |->
                                      IF p = line.target THEN ShellEcho(line.stdin)
                                      ELSE f.files[p]]]
    ELSE IF IsRemove(line)
         THEN [f EXCEPT !.files = [p \in DOMAIN f.files \ {line.target} |-> f.files[p]]]
    ELSE f

\* A call in progress: the filesystem, the subprocess results still to come,
\* the command lines handed to the engine, the last engine result, the value
\* returned and the exception raised
NoExc == "none"

Call(f, outs) ==
    [fs |-> f, outs |-> outs, cmds |-> <<>>, res |-> None, ret |-> None, raised |-> NoExc]

Raise(ctx, exc) == [ctx EXCEPT !.raised = exc]

Return(ctx, value) == [ctx EXCEPT !.ret = Some(value)]

\* run that tries a second time when the command exits non-zero
run_Retry(ctx, engine, cmd, sudo) ==
    LET line  == IF sudo THEN [cmd EXCEPT !.argv = <<"sudo">> \o @] ELSE cmd
        Try(c) == LET result == Head(c.outs) IN
                  [c EXCEPT !.fs = ShellEffect(@, line, result),
                            !.cmds = Append(@, [line |-> line, executed |-> TRUE,
                                                result |-> Some(result)]),
                            !.outs = Tail(@),
                            !.res = Some(result)]
    IN IF engine.dry_run
       THEN [ctx EXCEPT !.cmds = Append(@, [line |-> line, executed |-> FALSE,
                                            result |-> None]),
                        !.res = None]
       ELSE LET c1 == Try(ctx) IN
            IF c1.res[1].returncode /= 0 /\ c1.outs /= <<>> THEN Try(c1) ELSE c1

\* CommandEngine.run: prefix when elevated, skip when dry-run, else one
\* subprocess.run whose result is returned whatever its exit status
run(ctx, engine, cmd, sudo) ==
    LET line == IF sudo THEN [cmd EXCEPT !.argv = <<"sudo">> \o @] ELSE cmd IN
    IF engine.dry_run
    THEN [ctx EXCEPT !.cmds = Append(@, [line |-> line, executed |-> FALSE,
                                         result |-> None]),
                     !.res = None]
    ELSE LET drawn  == Head(ctx.outs)
             result == IF drawn.returncode = 0 /\ ~CanSucceed(ctx.fs, line)
                       THEN Completed(1, <<>>, <<"error">>) ELSE drawn
         IN [ctx EXCEPT !.fs = ShellEffect(@, line, result),
                        !.cmds = Append(@, [line |-> line, executed |-> TRUE,
                                            result |-> Some(result)]),
                        !.outs = Tail(@),
                        !.res = Some(result)]

\* Command.execute: the engine is always attached by __init__
execute(ctx, command) == run(ctx, command.engine, command.command_str, command.sudo)

-----------------------------------------------------------------------------
(* unit.py: construction *)

DefaultSystemdDir == "/etc/systemd/system"

\* Unit.__init__, from its keyword arguments
Unit(kwargs) ==
    [name              |-> kwargs.name,
     description       |-> Arg(kwargs, "description", <<>>),
     exec_start        |-> Arg(kwargs, "exec_start", None),
     exec_stop         |-> Arg(kwargs, "exec_stop", None),
     working_directory |-> Arg(kwargs, "working_directory", None),
     restart           |-> Arg(kwargs, "restart", None),
     user              |-> Arg(kwargs, "user", None),
     environment       |-> LET e == Arg(kwargs, "environment", None)
                           IN IF e = None THEN <<>> ELSE e[1],
     wanted_by         |-> Arg(kwargs, "wanted_by", <<"multi-user.target">>),
     after             |-> Arg(kwargs, "after", None),
     requires          |-> Arg(kwargs, "requires", None),
     service_type      |-> Arg(kwargs, "service_type", Some(<<"oneshot">>)),
     verbose           |-> Arg(kwargs, "verbose", FALSE),
     dry_run           |-> Arg(kwargs, "dry_run", TRUE),
     systemd_dir       |-> Arg(kwargs, "systemd_dir", DefaultSystemdDir),
     service_file_name |-> <<kwargs.name, ".service">>]

\* from_dict that wraps whatever string the record holds, the empty one too
from_dict_WrapAny(config, kwargs) ==
    LET start_cmd == Get(config, "exec_start")
        stop_cmd  == Get(config, "exec_stop")
    IN Unit(kwargs @@
            [name              |-> config.name,
             description       |-> GetOr(config, "description", <<>>),
             exec_start        |-> IF start_cmd /= None
                                   THEN Some(Command(start_cmd[1], NoKwargs)) ELSE None,
             exec_stop         |-> IF stop_cmd /= None
                                   THEN Some(Command(stop_cmd[1], NoKwargs)) ELSE None,
             working_directory |-> Get(config, "working_directory"),
             restart           |-> Get(config, "restart"),
             user              |-> Get(config, "user"),
             environment       |-> Get(config, "environment"),
             wanted_by         |-> GetOr(config, "wanted_by", <<"multi-user.target">>),
             after             |-> Get(config, "after"),
             requires          |-> Get(config, "requires"),
             service_type      |-> Get(config, "type")])

\* Unit.from_dict: the record's fields, then the caller's keyword arguments
from_dict(config, kwargs) ==
    LET start_cmd == Get(config, "exec_start")
        stop_cmd  == Get(config, "exec_stop")
    IN Unit(kwargs @@
            [name              |-> config.name,
             description       |-> GetOr(config, "description", <<>>),
             exec_start        |-> IF Truthy(start_cmd)
                                   THEN Some(Command(start_cmd[1], NoKwargs)) ELSE None,
             exec_stop         |-> IF Truthy(stop_cmd)
                                   THEN Some(Command(stop_cmd[1], NoKwargs)) ELSE None,
             working_directory |-> Get(config, "working_directory"),
             restart           |-> Get(config, "restart"),
             user              |-> Get(config, "user"),
             environment       |-> Get(config, "environment"),
             wanted_by         |-> GetOr(config, "wanted_by", <<"multi-user.target">>),
             after             |-> Get(config, "after"),
             requires          |-> Get(config, "requires"),
             service_type      |-> Get(config, "type")])

-----------------------------------------------------------------------------
(* unit.py: the descriptor *)

\* f"{key}={value}"
KeyValue(key, value) == <<key, "=">> \o value

\* the environment lines in the reverse of the map's order
RECURSIVE EnvironmentLines_Reversed(_)
EnvironmentLines_Reversed(env) ==
    IF env = <<>> THEN <<>>
    ELSE EnvironmentLines_Reversed(Tail(env))
         \o <<KeyValue("Environment", <<Head(env)[1], "=">> \o Head(env)[2])>>

\* [f"Environment={k}={v}" for k, v in self.environment.items()]: the map is
\* the sequence of its (key, value) items in insertion order
RECURSIVE EnvironmentLines(_)
EnvironmentLines(env) ==
    IF env = <<>> THEN <<>>
    ELSE <<KeyValue("Environment", <<Head(env)[1], "=">> \o Head(env)[2])>>
         \o EnvironmentLines(Tail(env))

\* a generator that marks the text of a call made right after another one
generate_service_file_data_Stamped(u) ==
    << <<"[Unit]">>, KeyValue("Description", <<u.name>>), <<"[Install]">>,
       KeyValue("WantedBy", u.wanted_by) >>
    \o (IF last.op = "generate_service_file_data" THEN << <<"#", "again">> >> ELSE <<>>)

\* Unit.generate_service_file_data: "\n".join(filter(None, lines))
generate_service_file_data(u) ==
    LET lines ==
          << <<"[Unit]">>,
             KeyValue("Description", IF u.description /= <<>> THEN u.description
                                     ELSE <<u.name>>),
             IF Truthy(u.after) THEN KeyValue("After", Format(u.after)) ELSE <<>>,
             IF Truthy(u.requires) THEN KeyValue("Requires", Format(u.requires)) ELSE <<>>,
             <<>>,
             <<"[Service]">>,
             KeyValue("Type", Format(u.service_type)),
             IF Truthy(u.working_directory)
             THEN KeyValue("WorkingDirectory", Format(u.working_directory)) ELSE <<>>,
             IF u.exec_start /= None
             THEN KeyValue("ExecStart", u.exec_start[1].command_str) ELSE <<>>,
             IF u.exec_stop /= None
             THEN KeyValue("ExecStop", u.exec_stop[1].command_str) ELSE <<>>,
             IF Truthy(u.restart) THEN KeyValue("Restart", Format(u.restart)) ELSE <<>>,
             IF Truthy(u.user) THEN KeyValue("User", Format(u.user)) ELSE <<>> >>
          \o EnvironmentLines(u.environment)
          \o << <<>>, <<"[Install]">>, KeyValue("WantedBy", u.wanted_by) >>
    IN SelectSeq(lines, LAMBDA l : l /= <<>>)

-----------------------------------------------------------------------------
(* unit.py: live state *)

unit_abs_path(u) == join_path(<<u.systemd_dir>>, u.service_file_name)

\* is_loaded that looks in the default directory, whatever the unit's own
is_loaded_DefaultDir(f, u) ==
    path_exists(f, join_path(<<DefaultSystemdDir>>, u.service_file_name))

is_loaded(f, u) == path_exists(f, unit_abs_path(u))

\* str.strip(): leading and trailing whitespace removed
Whitespace == {" ", "\n", "\t"}

RECURSIVE lstrip(_)
lstrip(s) == IF s /= <<>> /\ Head(s) \in Whitespace THEN lstrip(Tail(s)) ELSE s

RECURSIVE rstrip(_)
rstrip(s) ==
    IF s /= <<>> /\ s[Len(s)] \in Whitespace THEN rstrip(SubSeq(s, 1, Len(s) - 1)) ELSE s

\* strip that leaves the text as it is
strip_Keep(s) == s

strip(s) == rstrip(lstrip(s))

\* f"systemctl {verb} {self.service_file_name}", issued with the unit's flags
Systemctl(u, verb, sudo) ==
    Command(Line(<<"systemctl", verb>>, u.service_file_name, <<>>),
            [sudo |-> sudo, description |-> <<verb, u.name>>,
             verbose |-> u.verbose, dry_run |-> u.dry_run])

\* a query property: res.stdout.strip() == token, res being whatever execute returned
Query(ctx, u, verb, token) ==
    LET c == execute(ctx, Systemctl(u, verb, FALSE)) IN
    IF c.res = None THEN Raise(c, "AttributeError")
    ELSE Return(c, strip(c.res[1].stdout) = <<token>>)

is_enabled(ctx, u) == Query(ctx, u, "is-enabled", "enabled")

is_active(ctx, u) == Query(ctx, u, "is-active", "active")

-----------------------------------------------------------------------------
(* unit.py: the descriptor-file factory.  A file is the sequence of its     *)
(* lines, a line the sequence of its tokens; "=" and "#" are tokens.        *)

\* lower that leaves the case of a key as it is
lower_Keep(t) == t

\* str.lower() of a token: the spellings of the descriptor keys, any other
\* token being lower-case already
lower(t) ==
    CASE t \in {"Description", "DESCRIPTION"}  -> "description"
      [] t = "After"                           -> "after"
      [] t = "Requires"                        -> "requires"
      [] t = "Type"                            -> "type"
      [] t = "WorkingDirectory"                -> "workingdirectory"
      [] t \in {"ExecStart", "EXECSTART"}      -> "execstart"
      [] t = "ExecStop"                        -> "execstop"
      [] t = "Restart"                         -> "restart"
      [] t \in {"User", "USER"}                -> "user"
      [] t = "Environment"                     -> "environment"
      [] t = "WantedBy"                        -> "wantedby"
      [] t = "Name"                            -> "name"
      [] OTHER                                 -> t

\* the place of the first "=" of a line that has one
RECURSIVE find(_, _, _)
find(s, t, i) == IF s[i] = t THEN i ELSE find(s, t, i + 1)

\* "=" in line
Contains(s, t) == \E i \in DOMAIN s : s[i] = t

\* line.strip().startswith("#")
startswith(s, t) == s /= <<>> /\ Head(s) = t

\* the loop over the lines of the file: config[key.lower()] = value for every
\* line with an "=" that is not a comment, a later line replacing an earlier one
RECURSIVE parse_lines(_, _)
parse_lines(lines, config) ==
    IF lines = <<>> THEN config
    ELSE LET line == Head(lines) IN
         IF Contains(line, "=") /\ ~startswith(strip(line), "#")
         THEN LET s     == strip(line)
                  k     == find(s, "=", 1)
                  key   == [i \in 1..(k - 1) |-> lower(s[i])]
                  value == SubSeq(s, k + 1, Len(s))
              IN parse_lines(Tail(lines),
                             [c \in DOMAIN config \cup {key} |->
                                 IF c = key THEN value ELSE config[c]])
         ELSE parse_lines(Tail(lines), config)

\* Path(filepath).stem: the file name is the pair of its stem and its suffix
stem(filepath) == filepath[Len(filepath)][1]

\* Unit.from_service_file: the outcome is the exception raised and the Unit built
from_service_file(f, filepath, kwargs) ==
    IF ~path_exists(f, filepath) THEN [raised |-> "FileNotFoundError", unit |-> None]
    ELSE LET config == parse_lines(f.files[filepath], [c \in {} |-> <<>>])
             start  == Get(config, <<"execstart">>)
             stop_  == Get(config, <<"execstop">>)
         IN IF DOMAIN config = {} THEN [raised |-> "ValueError", unit |-> None]
            ELSE [raised |-> NoExc,
                  unit |-> Some(Unit(kwargs @@
                     [name              |-> stem(filepath),
                      description       |-> GetOr(config, <<"description">>, <<>>),
                      exec_start        |-> IF Truthy(start)
                                            THEN Some(Command(start[1], NoKwargs))
                                            ELSE None,
                      exec_stop         |-> IF Truthy(stop_)
                                            THEN Some(Command(stop_[1], NoKwargs))
                                            ELSE None,
                      working_directory |-> Get(config, <<"workingdirectory">>),
                      restart           |-> Get(config, <<"restart">>),
                      user              |-> Get(config, <<"user">>),
                      environment       |-> Some(<<>>),
                      wanted_by         |-> GetOr(config, <<"wantedby">>,
                                                  <<"multi-user.target">>),
                      after             |-> Get(config, <<"after">>),
                      requires          |-> Get(config, <<"requires">>),
                      service_type      |-> Get(config, <<"type">>)]))]

-----------------------------------------------------------------------------
(* unit.py: lifecycle operations.  Each takes the call in progress and      *)
(* returns it advanced; an exception raised in a callee ends the caller.    *)

\* to_file with the descriptor written under the bare unit name
to_file_BareName(ctx, u, directory) ==
    LET dir  == IF directory /= None /\ directory[1] /= "" THEN directory[1]
                ELSE u.systemd_dir
        path == join_path(<<dir>>, <<u.name>>)
    IN IF ~path_exists(ctx.fs, <<dir>>) THEN Raise(ctx, "ValueError")
       ELSE execute(ctx, Command(Line(<<"echo", "|", "sudo", "tee", ">", "/dev/null">>,
                                      path, generate_service_file_data(u)),
                                 [sudo |-> TRUE, description |-> <<"write", u.name>>,
                                  dry_run |-> u.dry_run]))

\* to_file that does not hand the unit's dry_run flag to its command
to_file_Executed(ctx, u, directory) ==
    LET dir  == IF directory /= None /\ directory[1] /= "" THEN directory[1]
                ELSE u.systemd_dir
        path == join_path(<<dir>>, u.service_file_name)
    IN IF ~path_exists(ctx.fs, <<dir>>) THEN Raise(ctx, "ValueError")
       ELSE execute(ctx, Command(Line(<<"echo", "|", "sudo", "tee", ">", "/dev/null">>,
                                      path, generate_service_file_data(u)),
                                 [sudo |-> TRUE, description |-> <<"write", u.name>>]))

\* Unit.to_file(directory)
to_file(ctx, u, directory) ==
    LET dir  == IF directory /= None /\ directory[1] /= "" THEN directory[1]
                ELSE u.systemd_dir
        path == join_path(<<dir>>, u.service_file_name)
    IN IF ~path_exists(ctx.fs, <<dir>>) THEN Raise(ctx, "ValueError")
       ELSE execute(ctx, Command(Line(<<"echo", "|", "sudo", "tee", ">", "/dev/null">>,
                                      path, generate_service_file_data(u)),
                                 [sudo |-> TRUE, description |-> <<"write", u.name>>,
                                  dry_run |-> u.dry_run]))

\* load without its precondition check
load_Unchecked(ctx, u) == to_file(ctx, u, Some(u.systemd_dir))

\* Unit.load
load(ctx, u) ==
    IF is_loaded(ctx.fs, u) THEN Raise(ctx, "FileExistsError")
    ELSE to_file(ctx, u, Some(u.systemd_dir))

\* unload without its precondition check
unload_Unchecked(ctx, u) ==
    execute(ctx, Command(Line(<<"rm">>, unit_abs_path(u), <<>>),
                         [sudo |-> TRUE, description |-> <<"rm", u.name>>,
                          verbose |-> u.verbose, dry_run |-> u.dry_run]))

\* Unit.unload
unload(ctx, u) ==
    IF ~is_loaded(ctx.fs, u) THEN Raise(ctx, "FileNotFoundError")
    ELSE execute(ctx, Command(Line(<<"rm">>, unit_abs_path(u), <<>>),
                              [sudo |-> TRUE, description |-> <<"rm", u.name>>,
                               verbose |-> u.verbose, dry_run |-> u.dry_run]))

\* Unit.reload_daemon
reload_daemon(ctx, u) ==
    execute(ctx, Command(Line(<<"systemctl", "daemon-reload">>, <<>>, <<>>),
                         [sudo |-> TRUE, description |-> <<"daemon-reload">>,
                          verbose |-> u.verbose, dry_run |-> u.dry_run]))

\* setup that loads whatever the load state
setup_AlwaysLoad(ctx, u) ==
    LET c1 == load(ctx, u)
    IN IF c1.raised /= NoExc THEN c1 ELSE reload_daemon(c1, u)

\* Unit.setup
setup(ctx, u) ==
    LET c1 == IF ~is_loaded(ctx.fs, u) THEN load(ctx, u) ELSE ctx
    IN IF c1.raised /= NoExc THEN c1 ELSE reload_daemon(c1, u)

\* start that issues the start command before setting the unit up
start_BeforeSetup(ctx, u) ==
    LET c1 == execute(ctx, Systemctl(u, "start", TRUE))
    IN setup(c1, u)

\* Unit.start
start(ctx, u) ==
    LET c1 == setup(ctx, u)
    IN IF c1.raised /= NoExc THEN c1 ELSE execute(c1, Systemctl(u, "start", TRUE))

\* stop that first announces itself with a skipped status command
stop_Announced(ctx, u) ==
    LET c1 == execute(ctx, Command(Line(<<"systemctl", "status">>, u.service_file_name, <<>>),
                                   [sudo |-> TRUE, dry_run |-> TRUE]))
    IN execute(c1, Systemctl(u, "stop", TRUE))

\* Unit.stop
stop(ctx, u) == execute(ctx, Systemctl(u, "stop", TRUE))

\* Unit.restart_unit
restart_unit(ctx, u) == execute(ctx, Systemctl(u, "restart", TRUE))

\* Unit.status
status(ctx, u) == execute(ctx, Systemctl(u, "status", TRUE))

\* Unit.enable
enable(ctx, u) == execute(ctx, Systemctl(u, "enable", TRUE))

\* Unit.disable
disable(ctx, u) == execute(ctx, Systemctl(u, "disable", TRUE))

\* reload_unit that skips the unload of a unit that is not loaded
reload_unit_Tolerant(ctx, u) ==
    LET c1 == IF is_loaded(ctx.fs, u) THEN unload(ctx, u) ELSE ctx
        c2 == IF c1.raised /= NoExc THEN c1 ELSE load(c1, u)
    IN IF c2.raised /= NoExc THEN c2 ELSE reload_daemon(c2, u)

\* Unit.reload_unit
reload_unit(ctx, u) ==
    LET c1 == unload(ctx, u)
        c2 == IF c1.raised /= NoExc THEN c1 ELSE load(c1, u)
    IN IF c2.raised /= NoExc THEN c2 ELSE reload_daemon(c2, u)

\* the lifecycle method of a Unit that a name selects
Method(op, ctx, u) ==
    CASE op = "load"        -> load(ctx, u)
      [] op = "unload"      -> unload(ctx, u)
      [] op = "setup"       -> setup(ctx, u)
      [] op = "start"       -> start(ctx, u)
      [] op = "stop"        -> stop(ctx, u)
      [] op = "restart"     -> restart_unit(ctx, u)
      [] op = "status"      -> status(ctx, u)
      [] op = "enable"      -> enable(ctx, u)
      [] op = "disable"     -> disable(ctx, u)
      [] op = "reload"      -> reload_unit(ctx, u)

-----------------------------------------------------------------------------
(* unit_manager.py.  reg is the dict self.units, h the Unit objects.        *)

RECURSIVE IndexOf(_, _, _)
IndexOf(reg, name, i) ==
    IF i > Len(reg) THEN 0
    ELSE IF reg[i].key = name THEN i ELSE IndexOf(reg, name, i + 1)

\* dict[key] = value: an existing key keeps its place, a new one goes last
SetItem(reg, key, unit) ==
    LET i == IndexOf(reg, key, 1) IN
    IF i = 0 THEN Append(reg, [key |-> key, unit |-> unit])
    ELSE [reg EXCEPT ![i].unit = unit]

\* add_unit that keeps the Unit already stored under the name
add_unit_KeepFirst(reg, h, unit) ==
    IF IndexOf(reg, h[unit].name, 1) = 0 THEN SetItem(reg, h[unit].name, unit) ELSE reg

\* UnitManager.add_unit
add_unit(reg, h, unit) == SetItem(reg, h[unit].name, unit)

\* get that hides a unit whose descriptor file is gone
get_OnlyLoaded(reg, name) ==
    LET i == IndexOf(reg, name, 1) IN
    IF i = 0 \/ ~is_loaded(fs, heap[reg[i].unit]) THEN None ELSE Some(reg[i].unit)

\* UnitManager.get: self.units.get(name)
get(reg, name) ==
    LET i == IndexOf(reg, name, 1) IN IF i = 0 THEN None ELSE Some(reg[i].unit)

\* UnitManager._load_from_config: each record through the factory, then added
RECURSIVE load_from_config(_, _, _)
load_from_config(reg, h, services) ==
    IF services = <<>> THEN [units |-> reg, heap |-> h]
    ELSE LET h1 == Append(h, from_dict(Head(services), NoKwargs))
         IN load_from_config(add_unit(reg, h1, Len(h1)), h1, Tail(services))

\* UnitManager.start_service
start_service(ctx, reg, h, service_name) ==
    LET unit == get(reg, service_name) IN
    IF unit = None THEN Raise(ctx, "Exception") ELSE start(ctx, h[unit[1]])

\* stop_service that returns silently when the name is not registered
stop_service_Silent(ctx, reg, h, service_name) ==
    LET unit == get(reg, service_name) IN
    IF unit = None THEN ctx ELSE stop(ctx, h[unit[1]])

\* UnitManager.stop_service
stop_service(ctx, reg, h, service_name) ==
    LET unit == get(reg, service_name) IN
    IF unit = None THEN Raise(ctx, "Exception") ELSE stop(ctx, h[unit[1]])

\* UnitManager.enable_service
enable_service(ctx, reg, h, service_name) ==
    LET unit == get(reg, service_name) IN
    IF unit = None THEN Raise(ctx, "Exception") ELSE enable(ctx, h[unit[1]])

\* UnitManager.disable_service
disable_service(ctx, reg, h, service_name) ==
    LET unit == get(reg, service_name) IN
    IF unit = None THEN Raise(ctx, "Exception") ELSE disable(ctx, h[unit[1]])

\* UnitManager.reload_service
reload_service(ctx, reg, h, service_name) ==
    LET unit == get(reg, service_name) IN
    IF unit = None THEN Raise(ctx, "Exception") ELSE reload_unit(ctx, h[unit[1]])

\* UnitManager.load_service
load_service(ctx, reg, h, service_name) ==
    LET unit == get(reg, service_name) IN
    IF unit = None THEN Raise(ctx, "Exception") ELSE load(ctx, h[unit[1]])

\* UnitManager.unload_service
unload_service(ctx, reg, h, service_name) ==
    LET unit == get(reg, service_name) IN
    IF unit = None THEN Raise(ctx, "Exception") ELSE unload(ctx, h[unit[1]])

\* UnitManager.restart_service
restart_service(ctx, reg, h, service_name) ==
    LET unit == get(reg, service_name) IN
    IF unit = None THEN Raise(ctx, "Exception") ELSE restart_unit(ctx, h[unit[1]])

ServiceOps ==
    {"start", "stop", "enable", "disable", "reload", "load", "unload", "restart"}

ServiceMethod(op, ctx, reg, h, service_name) ==
    CASE op = "start"   -> start_service(ctx, reg, h, service_name)
      [] op = "stop"    -> stop_service(ctx, reg, h, service_name)
      [] op = "enable"  -> enable_service(ctx, reg, h, service_name)
      [] op = "disable" -> disable_service(ctx, reg, h, service_name)
      [] op = "reload"  -> reload_service(ctx, reg, h, service_name)
      [] op = "load"    -> load_service(ctx, reg, h, service_name)
      [] op = "unload"  -> unload_service(ctx, reg, h, service_name)
      [] op = "restart" -> restart_service(ctx, reg, h, service_name)

\* a loop that goes on to the next unit after a failure and keeps the error
RECURSIVE ForEach_Isolated(_, _, _, _)
ForEach_Isolated(ctx, items, h, op) ==
    IF items = <<>> THEN ctx
    ELSE LET c == Method(op, [ctx EXCEPT !.raised = NoExc], h[Head(items).unit])
         IN ForEach_Isolated(IF ctx.raised /= NoExc THEN Raise(c, ctx.raised) ELSE c,
                             Tail(items), h, op)

\* for unit in self.units.values(): unit.<op>() -- an exception ends the loop
RECURSIVE ForEach(_, _, _, _)
ForEach(ctx, items, h, op) ==
    IF items = <<>> \/ ctx.raised /= NoExc THEN ctx
    ELSE ForEach(Method(op, ctx, h[Head(items).unit]), Tail(items), h, op)

kill_switch(ctx, reg, h) == ForEach(ctx, reg, h, "stop")

start_all(ctx, reg, h) == ForEach(ctx, reg, h, "start")

\* stop_all that stops the first registered unit only
stop_all_FirstOnly(ctx, reg, h) ==
    ForEach(ctx, IF reg = <<>> THEN reg ELSE <<Head(reg)>>, h, "stop")

stop_all(ctx, reg, h) == ForEach(ctx, reg, h, "stop")

reload_all(ctx, reg, h) == ForEach(ctx, reg, h, "reload")

load_all(ctx, reg, h) == ForEach(ctx, reg, h, "load")

unload_all(ctx, reg, h) == ForEach(ctx, reg, h, "unload")

enable_all(ctx, reg, h) == ForEach(ctx, reg, h, "enable")

disable_all(ctx, reg, h) == ForEach(ctx, reg, h, "disable")

BulkOps == {"start", "stop", "reload", "load", "unload", "enable", "disable", "kill"}

BulkMethod(op, ctx, reg, h) ==
    CASE op = "start"   -> start_all(ctx, reg, h)
      [] op = "stop"    -> stop_all(ctx, reg, h)
      [] op = "reload"  -> reload_all(ctx, reg, h)
      [] op = "load"    -> load_all(ctx, reg, h)
      [] op = "unload"  -> unload_all(ctx, reg, h)
      [] op = "enable"  -> enable_all(ctx, reg, h)
      [] op = "disable" -> disable_all(ctx, reg, h)
      [] op = "kill"    -> kill_switch(ctx, reg, h)

-----------------------------------------------------------------------------
(* Inputs *)

Names == {"web", "db"}

OtherDir == "/opt/units"

Dirs == {DefaultSystemdDir, OtherDir}

\* configuration records, as the declarative configuration lists them
WebConfig ==
    [name        |-> "web",
     exec_start  |-> <<"echo", " ", "start">>,
     exec_stop   |-> <<"echo", " ", "stop">>,
     environment |-> << <<"PORT", <<"8080">>>> >>]

DbConfig ==
    [name              |-> "db",
     description       |-> <<"Database">>,
     exec_start        |-> <<"echo", " ", "'", "Starting", " ", "service", "'">>,
     working_directory |-> <<"/tmp">>,
     restart           |-> <<"always">>,
     user              |-> <<"testuser">>,
     after             |-> <<"network.target">>,
     type              |-> <<"simple">>]

Configs == {WebConfig, DbConfig}

\* calls of the factory: a record and the keyword arguments given with it
FactoryCalls ==
    {[config |-> WebConfig, kwargs |-> NoKwargs],
     [config |-> DbConfig, kwargs |-> [dry_run |-> FALSE]]}

\* a direct construction, with an install directory of the caller's choice
CtorKwargs ==
    {[name |-> "web", dry_run |-> FALSE, systemd_dir |-> OtherDir,
      description |-> <<"Web">>, requires |-> Some(<<"db.service">>)]}

\* what subprocess.run can return for a command that acts / for a query
EffectResults == {Completed(0, <<>>, <<>>), Completed(1, <<>>, <<"error">>)}

QueryResults ==
    {Completed(0, <<"enabled", "\n">>, <<>>),
     Completed(0, <<" ", "active", "\n">>, <<>>),
     Completed(1, <<"disabled", "\n">>, <<>>),
     Completed(3, <<"inactive", "\n">>, <<>>),
     Completed(0, <<"enabled", " ", "active">>, <<>>),
     Completed(0, <<>>, <<>>),
     Completed(1, <<>>, <<"error">>)}

\* the commands one lifecycle call can issue at most
NCmds(op) ==
    CASE op \in {"start", "reload"} -> 3
      [] op = "setup" -> 2
      [] OTHER -> 1

Outs(n) ==
    {o \in [1..n -> EffectResults] :
        Cardinality({k \in 1..n : o[k].returncode /= 0}) <= MaxFailures}

UnitOps ==
    {"load", "unload", "setup", "start", "stop", "restart", "status", "enable",
     "disable", "reload"}

\* a descriptor some other program left behind
ForeignDescriptor == << <<"[Unit]">>, <<"Description", "=", "foreign">> >>

-----------------------------------------------------------------------------
(* The state machine *)

Done(op, unit, key, ctx) ==
    [op |-> op, unit |-> unit, key |-> key, raised |-> ctx.raised,
     cmds |-> ctx.cmds, ret |-> ctx.ret]

Quiet(op, unit, key) == Done(op, unit, key, Call(fs, <<>>))

\* no call is being looked at: the caller is about to make its next call
Idle == Quiet("idle", 0, "")

Init ==
    /\ heap = <<>>
    /\ units = <<>>
    /\ fs = [dirs |-> {<<DefaultSystemdDir>>}, files |-> [p \in {} |-> <<>>]]
    /\ last = Idle

\* Unit.from_dict(config, **kwargs)
FromDict ==
    /\ last = Idle
    /\ \E call \in FactoryCalls :
        /\ Len(heap) < MaxUnits
        /\ heap' = Append(heap, from_dict(call.config, call.kwargs))
        /\ last' = Quiet("from_dict", Len(heap) + 1, call.config.name)
        /\ UNCHANGED <<units, fs>>

\* Unit(name=..., ...)
Construct ==
    /\ last = Idle
    /\ \E kwargs \in CtorKwargs :
        /\ Len(heap) < MaxUnits
        /\ heap' = Append(heap, Unit(kwargs))
        /\ last' = Quiet("Unit", Len(heap) + 1, kwargs.name)
        /\ UNCHANGED <<units, fs>>

\* unit.<op>() on a Unit the caller holds
UnitCall ==
    /\ last = Idle
    /\ \E i \in 1..Len(heap), op \in UnitOps :
        \E outs \in Outs(NCmds(op)) :
            LET c == Method(op, Call(fs, outs), heap[i]) IN
            /\ fs' = c.fs
            /\ last' = Done(op, i, heap[i].name, c)
            /\ UNCHANGED <<heap, units>>

\* unit.is_enabled / unit.is_active
UnitQuery ==
    /\ last = Idle
    /\ \E i \in 1..Len(heap), q \in {"is_enabled", "is_active"}, out \in QueryResults :
        LET c == IF q = "is_enabled" THEN is_enabled(Call(fs, <<out>>), heap[i])
                 ELSE is_active(Call(fs, <<out>>), heap[i]) IN
        /\ fs' = c.fs
        /\ last' = Done(q, i, heap[i].name, c)
        /\ UNCHANGED <<heap, units>>

\* manager.add_unit(unit)
AddUnit ==
    /\ last = Idle
    /\ \E i \in 1..Len(heap) :
        /\ units' = add_unit(units, heap, i)
        /\ last' = Quiet("add_unit", i, heap[i].name)
        /\ UNCHANGED <<heap, fs>>

\* manager.get(name)
GetUnit ==
    /\ last = Idle
    /\ \E name \in Names :
        /\ last' = [Quiet("get", 0, name) EXCEPT !.ret = Some(get(units, name))]
        /\ UNCHANGED <<heap, units, fs>>

\* UnitManager._load_from_config on a configuration list
LoadFromConfig ==
    /\ last = Idle
    /\ \E services \in {<<a>> : a \in Configs} \cup {<<a, b>> : a, b \in Configs} :
        /\ Len(heap) + Len(services) <= MaxUnits
        /\ LET r == load_from_config(units, heap, services) IN
              heap' = r.heap /\ units' = r.units
        /\ last' = Quiet("_load_from_config", 0, "")
        /\ UNCHANGED fs

\* manager.<op>_service(name)
ServiceCall ==
    /\ last = Idle
    /\ \E name \in Names, op \in ServiceOps :
        \E outs \in Outs(NCmds(op)) :
            LET c == ServiceMethod(op, Call(fs, outs), units, heap, name)
                u == get(units, name) IN
            /\ fs' = c.fs
            /\ last' = Done(op \o "_service", IF u = None THEN 0 ELSE u[1], name, c)
            /\ UNCHANGED <<heap, units>>

\* manager.<op>_all() / manager.kill_switch()
BulkCall ==
    /\ last = Idle
    /\ \E op \in BulkOps :
        \E outs \in Outs(NCmds(op) * Len(units)) :
            LET c == BulkMethod(op, Call(fs, outs), units, heap) IN
            /\ fs' = c.fs
            /\ last' = Done(IF op = "kill" THEN "kill_switch" ELSE op \o "_all", 0, "", c)
            /\ UNCHANGED <<heap, units>>

\* another program writes or removes the descriptor of a unit, or removes
\* or creates its install directory, between two calls
External ==
    /\ last = Idle
    /\ \E i \in 1..Len(heap) :
          LET p == unit_abs_path(heap[i])
              d == <<heap[i].systemd_dir>> IN
          \/ /\ d \in fs.dirs
             /\ p \notin DOMAIN fs.files
             /\ fs' = [fs EXCEPT !.files = [q \in DOMAIN fs.files \cup {p} |->
                          IF q = p THEN ForeignDescriptor ELSE fs.files[q]]]
          \/ /\ p \in DOMAIN fs.files
             /\ fs' = [fs EXCEPT !.files = [q \in DOMAIN fs.files \ {p} |-> fs.files[q]]]
          \/ /\ d \notin fs.dirs
             /\ fs' = [fs EXCEPT !.dirs = @ \cup {d}]
          \/ /\ d \in fs.dirs
             /\ fs' = [dirs  |-> fs.dirs \ {d},
                       files |-> [q \in {r \in DOMAIN fs.files : <<r[1]>> /= d} |->
                                     fs.files[q]]]
    /\ UNCHANGED <<heap, units, last>>

\* the caller has looked at the outcome of its call and goes on
Continue ==
    /\ last /= Idle
    /\ last' = Idle
    /\ UNCHANGED <<heap, units, fs>>

Next ==
    \/ FromDict
    \/ Construct
    \/ UnitCall
    \/ UnitQuery
    \/ AddUnit
    \/ GetUnit
    \/ LoadFromConfig
    \/ ServiceCall
    \/ BulkCall
    \/ External
    \/ Continue

Spec == Init /\ [][Next]_vars

-----------------------------------------------------------------------------
(* The factories and the descriptor text.  A caller builds one Unit from a  *)
(* configuration record, generates its descriptor, writes text to a file,   *)
(* parses the file back into a Unit, and runs commands of its own.          *)

\* how many entries the environment of a configuration record has at most
MaxEnv == 2

EnvItems ==
    << <<"PORT", <<"8080">>>>, <<"HOST", <<"localhost">>>>, <<"MODE", <<"prod">>>>,
       <<"LEVEL", <<"info">>>> >>

Environments == {SubSeq(EnvItems, 1, n) : n \in 0..MaxEnv}

\* a key of a record that may be missing
Opt(S) == {None} \cup {Some(v) : v \in S}

Field(key, o) == IF o = None THEN NoKwargs ELSE (key :> o[1])

\* records that vary what the [Service] block is made from ...
ExecRecords ==
    {[name |-> "web"] @@ Field("exec_start", a) @@ Field("exec_stop", b)
        @@ Field("restart", c) @@ Field("user", d) @@ Field("environment", e) :
        a \in Opt({<<>>, <<"echo", " ", "start">>}),
        b \in Opt({<<"echo", " ", "stop">>}),
        c \in Opt({<<"always">>}),
        d \in Opt({<<>>, <<"testuser">>}),
        e \in Opt(Environments)}

\* ... and records that vary the rest, around the commands of WebConfig
UnitRecords ==
    {Field("description", a) @@ Field("working_directory", b) @@ Field("wanted_by", c)
        @@ Field("after", d) @@ Field("requires", e) @@ Field("type", f) @@ WebConfig :
        a \in Opt({<<"Web", " ", "server">>}),
        b \in Opt({<<"/srv/app">>, <<"/srv/app", " ">>}),
        c \in Opt({<<"default.target">>}),
        d \in Opt({<<"network.target">>}),
        e \in Opt({<<"db.service">>}),
        f \in Opt({<<"simple">>})}

Records == ExecRecords \cup UnitRecords

\* the file the caller writes and parses: its base name is not the unit's name
CopyPath == <<OtherDir, <<"copy", ".service">>>>

\* descriptors written by hand: indented and upper-case keys, comments, a key
\* given twice, a Name key, Environment lines, keys outside their section
HandWritten ==
    << <<"[Unit]">>,
       <<"#", " ", "Description", "=", "old">>,
       <<" ", " ", "DESCRIPTION", "=", "Shouting">>,
       <<"Name", "=", "other">>,
       <<"no", " ", "pair", " ", "here">>,
       <<"[Service]">>,
       <<"\t", "execstart", "=", "run", " ", "--level", "=", "3">>,
       <<"Environment", "=", "A", "=", "1">>,
       <<"Environment", "=", "B", "=", "2">>,
       <<"User", "=", "nobody">>,
       <<"[Install]">>,
       <<"USER", "=", "root">> >>

\* a file without any key=value line
NoPairs ==
    << <<"[Unit]">>, <<"#", "User", "=", "root">>, <<" ", "#", " ", "x", "=", "1">>,
       <<"free", " ", "text">> >>

ForeignTexts == {HandWritten, NoPairs, <<>>}

\* a command of the caller's own, and the flags it can be built with
StatusLine == Line(<<"systemctl", "status">>, <<"web", ".service">>, <<>>)

CommandKwargs ==
    {NoKwargs, [sudo |-> TRUE], [dry_run |-> TRUE], [sudo |-> TRUE, dry_run |-> TRUE]}

\* what the caller saw of a call: its argument, the exception, the commands
\* handed to the engine and the value returned
Result(op, unit, arg, ctx) ==
    [op |-> op, unit |-> unit, arg |-> arg, raised |-> ctx.raised, cmds |-> ctx.cmds,
     ret |-> ctx.ret]

FactoryInit ==
    /\ heap = <<>>
    /\ units = <<>>
    /\ fs = [dirs |-> {<<DefaultSystemdDir>>, <<OtherDir>>}, files |-> [p \in {} |-> <<>>]]
    /\ last = Result("idle", 0, None, Call(fs, <<>>))

\* Unit.from_dict(config): the Unit the caller goes on to work with
BuildFromDict ==
    /\ heap = <<>>
    /\ \E config \in Records :
        /\ heap' = <<from_dict(config, NoKwargs)>>
        /\ last' = Result("from_dict", 1, config, Call(fs, <<>>))
    /\ UNCHANGED <<units, fs>>

\* unit.generate_service_file_data(); the caller keeps the text of the call
\* before, when that was the same call on the same Unit
Generate ==
    /\ \E i \in 1..Len(heap) :
        LET before == IF last.op = "generate_service_file_data" /\ last.unit = i
                      THEN last.ret ELSE None
        IN last' = [Result("generate_service_file_data", i, before, Call(fs, <<>>))
                       EXCEPT !.ret = Some(generate_service_file_data(heap[i]))]
    /\ UNCHANGED <<heap, units, fs>>

\* the caller writes a text to the file: the descriptor generated from one of
\* its Units, or one written by hand
WriteText ==
    /\ \E text \in ForeignTexts
                    \cup {generate_service_file_data(heap[i]) : i \in 1..Len(heap)} :
        /\ fs' = [fs EXCEPT !.files = [q \in DOMAIN fs.files \cup {CopyPath} |->
                                          IF q = CopyPath THEN text ELSE fs.files[q]]]
        /\ last' = Result("write_text", 0, CopyPath, Call(fs, <<>>))
    /\ UNCHANGED <<heap, units>>

\* Unit.from_service_file(filepath): the Unit parsed is kept beside the first
ParseFile ==
    /\ LET r == from_service_file(fs, CopyPath, NoKwargs) IN
        /\ heap' = IF r.raised /= NoExc THEN heap
                   ELSE IF heap = <<>> THEN <<r.unit[1]>>
                   ELSE <<heap[1], r.unit[1]>>
        /\ last' = Result("from_service_file", IF r.raised = NoExc THEN Len(heap') ELSE 0,
                          CopyPath, Raise(Call(fs, <<>>), r.raised))
    /\ UNCHANGED <<units, fs>>

\* Command(command_str, **kwargs).execute() by a caller that holds no Unit yet,
\* the host answering at most twice
Execute ==
    /\ heap = <<>>
    /\ \E kwargs \in CommandKwargs, outs \in [1..2 -> EffectResults] :
        LET c == execute(Call(fs, outs), Command(StatusLine, kwargs)) IN
        /\ fs' = c.fs
        /\ last' = [Result("execute", 0, [kwargs |-> kwargs, outs |-> outs], c)
                        EXCEPT !.ret = c.res]
    /\ UNCHANGED <<heap, units>>

FactoryNext ==
    \/ BuildFromDict
    \/ Generate
    \/ WriteText
    \/ ParseFile
    \/ Execute

FactorySpec == FactoryInit /\ [][FactoryNext]_vars

-----------------------------------------------------------------------------
(* Reading a call off the state.  A call is a step out of Idle; in the      *)
(* state it leads to, last holds what the caller saw.                       *)

\* the Unit a unit-level call acted on
Target == heap[last.unit]

\* the step is a call of Unit.<op>, made directly or through <op>_service
Calls(op) == last = Idle /\ last'.op \in {op, op \o "_service"} /\ last'.unit /= 0

\* the state is the one a call of Unit.<op> returned or raised into
After(op) == last.op \in {op, op \o "_service"} /\ last.unit /= 0

\* the command lines, as the shell receives them
WriteLine(u) ==
    [argv   |-> <<"sudo", "echo", "|", "sudo", "tee", ">", "/dev/null">>,
     target |-> <<u.systemd_dir, <<u.name, ".service">>>>,
     stdin  |-> generate_service_file_data(u)]

RemoveLine(u) ==
    [argv   |-> <<"sudo", "rm">>,
     target |-> <<u.systemd_dir, <<u.name, ".service">>>>,
     stdin  |-> <<>>]

DaemonReloadLine ==
    [argv |-> <<"sudo", "systemctl", "daemon-reload">>, target |-> <<>>, stdin |-> <<>>]

SystemctlLine(u, verb) ==
    [argv |-> <<"sudo", "systemctl", verb>>, target |-> <<u.name, ".service">>,
     stdin |-> <<>>]

\* the descriptor file of u exists
Loaded(f, u) == <<u.systemd_dir, <<u.name, ".service">>>> \in DOMAIN f.files

LinesOf(cmds) == [k \in DOMAIN cmds |-> cmds[k].line]

-----------------------------------------------------------------------------
(* C1 *)

\* C1: Unit.load() called while the unit's descriptor file exists fails with
\* AlreadyLoaded (FileExistsError), issues no external command and leaves the
\* descriptor file (the whole filesystem) unchanged.
C1_LoadWhenLoadedFails ==
    [][(Calls("load") /\ Loaded(fs, heap[last'.unit])) =>
          /\ last'.raised = "FileExistsError"
          /\ last'.cmds = <<>>
          /\ fs' = fs]_vars

C1_Witness ==
    /\ After("load")
    /\ last.raised = "FileExistsError"
    /\ Loaded(fs, Target)
    /\ ~Target.dry_run

-----------------------------------------------------------------------------
(* C2 *)

\* C2: Unit.unload() on a unit whose descriptor file does not exist fails with
\* NotLoaded (FileNotFoundError) and issues no external command; on a loaded
\* unit it issues exactly one command, the elevated removal of the unit's
\* descriptor path.
C2_UnloadPrecondition ==
    [][Calls("unload") =>
          LET u == heap[last'.unit] IN
          IF Loaded(fs, u)
          THEN /\ last'.raised = NoExc
               /\ LinesOf(last'.cmds) = <<RemoveLine(u)>>
          ELSE /\ last'.raised = "FileNotFoundError"
               /\ last'.cmds = <<>>
               /\ fs' = fs]_vars

C2_Witness ==
    /\ After("unload")
    /\ last.raised = NoExc
    /\ Len(last.cmds) = 1
    /\ last.cmds[1].executed
    /\ ~Loaded(fs, Target)

-----------------------------------------------------------------------------
(* C3 *)

\* the write command of a load() that returned was run by the host and exited 0
WriteSucceeded ==
    /\ Len(last.cmds) = 1
    /\ last.cmds[1].executed
    /\ last.cmds[1].result /= None
    /\ last.cmds[1].result[1].returncode = 0

\* C3 as claimed: after Unit.load() returns without raising, is_loaded is true
\* (the descriptor file exists at install_root/name.service).
C3_LoadedAfterLoad ==
    (After("load") /\ last.raised = NoExc) => Loaded(fs, Target)

\* C3 as amended: after Unit.load() returns without raising on a unit that is
\* not dry-run, and the write command it issued exited with status 0,
\* is_loaded is true: the descriptor file exists at install_root/name.service.
C3_LoadedAfterSuccessfulWrite ==
    (After("load") /\ last.raised = NoExc /\ ~Target.dry_run /\ WriteSucceeded)
        => Loaded(fs, Target)

C3_Witness ==
    /\ After("load")
    /\ last.raised = NoExc
    /\ ~Target.dry_run
    /\ WriteSucceeded
    /\ Loaded(fs, Target)

-----------------------------------------------------------------------------
(* C4 *)

\* a setup() made right now on u raises nothing, whatever the host answers
SetupAgainSucceeds(f, u) ==
    \A outs \in [1..2 -> EffectResults] : setup(Call(f, outs), u).raised = NoExc

\* C4 as claimed: Unit.setup() never fails; on a loaded unit it issues only
\* daemon-reload, on an unloaded unit the descriptor write and then
\* daemon-reload; a second setup() right after the first does not fail either.
C4_SetupNeverFails ==
    [][Calls("setup") =>
          LET u == heap[last'.unit] IN
          /\ last'.raised = NoExc
          /\ LinesOf(last'.cmds) = IF Loaded(fs, u) THEN <<DaemonReloadLine>>
                                   ELSE <<WriteLine(u), DaemonReloadLine>>
          /\ SetupAgainSucceeds(fs', u)]_vars

\* C4 as amended: Unit.setup() never fails with AlreadyLoaded.  On a loaded
\* unit it writes no descriptor and issues only daemon-reload; on an unloaded
\* unit whose install directory exists it issues the descriptor write and then
\* daemon-reload; on an unloaded unit whose install directory does not exist it
\* fails with PathNotFound (ValueError) and issues no command.  A second
\* setup() right after one that returned does not fail.
C4_SetupIdempotent ==
    [][Calls("setup") =>
          LET u     == heap[last'.unit]
              dirOk == <<u.systemd_dir>> \in fs.dirs
          IN /\ last'.raised /= "FileExistsError"
             /\ Loaded(fs, u) =>
                   /\ last'.raised = NoExc
                   /\ LinesOf(last'.cmds) = <<DaemonReloadLine>>
             /\ (~Loaded(fs, u) /\ dirOk) =>
                   /\ last'.raised = NoExc
                   /\ LinesOf(last'.cmds) = <<WriteLine(u), DaemonReloadLine>>
             /\ (~Loaded(fs, u) /\ ~dirOk) =>
                   /\ last'.raised = "ValueError"
                   /\ last'.cmds = <<>>
             /\ last'.raised = NoExc => SetupAgainSucceeds(fs', u)]_vars

C4_Witness ==
    /\ After("setup")
    /\ last.raised = NoExc
    /\ Len(last.cmds) = 2
    /\ last.cmds[1].executed
    /\ Loaded(fs, Target)
    /\ SetupAgainSucceeds(fs, Target)

-----------------------------------------------------------------------------
(* C5 *)

\* C5: Unit.start() issues the descriptor write (only if the unit is not
\* loaded), then daemon-reload, then the elevated systemctl start
\* <name>.service.  The start command comes right after the daemon-reload of
\* the same call and is the last command of the call; a start() that returns
\* has issued exactly these commands.
C5_StartOrder ==
    [][Calls("start") =>
          LET u    == heap[last'.unit]
              cmds == LinesOf(last'.cmds)
          IN /\ \A k \in DOMAIN cmds :
                   cmds[k] = SystemctlLine(u, "start") =>
                       k = Len(cmds) /\ k > 1 /\ cmds[k - 1] = DaemonReloadLine
             /\ \A k \in DOMAIN cmds :
                   cmds[k] = WriteLine(u) => k = 1 /\ ~Loaded(fs, u)
             /\ last'.raised = NoExc =>
                   cmds = (IF Loaded(fs, u) THEN <<>> ELSE <<WriteLine(u)>>)
                          \o <<DaemonReloadLine, SystemctlLine(u, "start")>>]_vars

C5_Witness ==
    /\ After("start")
    /\ last.raised = NoExc
    /\ LinesOf(last.cmds) =
          <<WriteLine(Target), DaemonReloadLine, SystemctlLine(Target, "start")>>
    /\ \A k \in 1..3 : last.cmds[k].executed

-----------------------------------------------------------------------------
(* C6 *)

\* C6: Unit.reload_unit() on a loaded unit performs unload, then load, then
\* daemon-reload, in that order, completes without raising, and leaves the
\* unit loaded with the descriptor generated from its current fields.
C6_ReloadLoadedUnit ==
    [][(Calls("reload") /\ Loaded(fs, heap[last'.unit])) =>
          LET u == heap[last'.unit] IN
          /\ last'.raised = NoExc
          /\ LinesOf(last'.cmds) = <<RemoveLine(u), WriteLine(u), DaemonReloadLine>>
          /\ Loaded(fs', u)
          /\ fs'.files[<<u.systemd_dir, <<u.name, ".service">>>>]
                = generate_service_file_data(u)]_vars

-----------------------------------------------------------------------------
(* C7 *)

\* C7: Unit.reload_unit() on a unit that is not loaded fails with NotLoaded
\* (FileNotFoundError) before any external command is issued: no descriptor is
\* written, no daemon-reload is triggered, and the unit stays unloaded.
C7_ReloadUnloadedFails ==
    [][(Calls("reload") /\ ~Loaded(fs, heap[last'.unit])) =>
          /\ last'.raised = "FileNotFoundError"
          /\ last'.cmds = <<>>
          /\ fs' = fs
          /\ ~Loaded(fs', heap[last'.unit])]_vars

C7_Witness ==
    /\ After("reload")
    /\ last.raised = "FileNotFoundError"
    /\ last.cmds = <<>>
    /\ ~Loaded(fs, Target)
    /\ ~Target.dry_run

-----------------------------------------------------------------------------
(* C8 *)

\* the token a query property compares the trimmed output with
QueryToken == IF last.op = "is_enabled" THEN "enabled" ELSE "active"

\* the output of the query with the whitespace at both ends dropped: none when
\* the command was skipped
Trimmed ==
    IF Len(last.cmds) = 1 /\ last.cmds[1].result /= None
    THEN LET out   == last.cmds[1].result[1].stdout
             black == {k \in DOMAIN out : out[k] \notin {" ", "\n", "\t"}}
         IN IF black = {} THEN <<>>
            ELSE SubSeq(out, CHOOSE k \in black : \A j \in black : k <= j,
                             CHOOSE k \in black : \A j \in black : k >= j)
    ELSE <<>>

\* C8: Unit.is_enabled and Unit.is_active never raise, and return true exactly
\* when the trimmed stdout of the query equals 'enabled' / 'active'; for empty
\* output, a failed query and the skipped outcome of a dry-run unit they return
\* false.
C8_QueriesReturnFalse ==
    last.op \in {"is_enabled", "is_active"} =>
        /\ last.raised = NoExc
        /\ last.ret = Some(Trimmed = <<QueryToken>>)

-----------------------------------------------------------------------------
(* C9 *)

Registered(name) == \E k \in DOMAIN units : units[k].key = name

ServiceCalls ==
    {"start_service", "stop_service", "enable_service", "disable_service",
     "load_service", "unload_service", "reload_service", "restart_service"}

\* C9: UnitManager.get(name) for an unregistered name returns absent without
\* raising, and every per-name operation called with an unregistered name fails
\* with UnitNotFound (Exception), issues no external command and leaves the
\* registry (and the units and the filesystem) unchanged.
C9_UnregisteredName ==
    [][(last = Idle /\ ~Registered(last'.key)) =>
          /\ last'.op = "get" => last'.raised = NoExc /\ last'.ret = Some(None)
          /\ last'.op \in ServiceCalls =>
                /\ last'.raised = "Exception"
                /\ last'.cmds = <<>>
                /\ units' = units
                /\ heap' = heap
                /\ fs' = fs]_vars

C9_Witness ==
    /\ last.op = "restart_service"
    /\ ~Registered(last.key)
    /\ last.raised = "Exception"
    /\ last.cmds = <<>>
    /\ units /= <<>>

-----------------------------------------------------------------------------
(* C10 *)

\* every key of the registry is the name of the Unit stored under it, and no
\* key occurs twice
RegistryConsistent ==
    /\ \A k \in DOMAIN units :
          /\ units[k].unit \in 1..Len(heap)
          /\ heap[units[k].unit].name = units[k].key
    /\ \A j, k \in DOMAIN units : units[j].key = units[k].key => j = k

\* the Unit object stored under a name
StoredUnder(reg, name) == {reg[k].unit : k \in {j \in DOMAIN reg : reg[j].key = name}}

\* C10: after any sequence of UnitManager operations every key of the registry
\* equals the name of the Unit stored under it; add_unit raises nothing, stores
\* the Unit under its name (replacing a Unit already there: last write wins),
\* leaves every other entry alone, and get(name) then returns that Unit.
C10_RegistryKeys ==
    [][/\ RegistryConsistent'
       /\ (last = Idle /\ last'.op = "add_unit") =>
             LET name == heap[last'.unit].name IN
             /\ last'.raised = NoExc
             /\ StoredUnder(units', name) = {last'.unit}
             /\ \A n \in Names \ {name} : StoredUnder(units', n) = StoredUnder(units, n)
             /\ Len(units') = IF Registered(name) THEN Len(units) ELSE Len(units) + 1
       /\ (last = Idle /\ last'.op = "get" /\ Registered(last'.key)) =>
             {last'.ret[1][1]} = StoredUnder(units, last'.key)]_vars

C10_Witness ==
    /\ last.op = "add_unit"
    /\ Len(heap) = 2
    /\ heap[1].name = heap[2].name
    /\ last.unit = 1
    /\ units = <<[key |-> heap[1].name, unit |-> 1]>>
    /\ heap[1] /= heap[2]

-----------------------------------------------------------------------------
(* C11 *)

\* the Unit registered at place k of the registry
UnitAt(k) == heap[units[k].unit]

\* one elevated systemctl <verb> command for every registered unit, in
\* registry order, each naming the key the unit is registered under
OnePerUnit(verb) ==
    [k \in DOMAIN units |->
        [argv |-> <<"sudo", "systemctl", verb>>, target |-> <<units[k].key, ".service">>,
         stdin |-> <<>>]]

\* C11: UnitManager.stop_all() and kill_switch() issue exactly one stop
\* invocation for each registered unit name and none for any other name;
\* enable_all() issues exactly one enable invocation per registered unit.  None
\* of them raises.
C11_OnePerRegisteredUnit ==
    /\ last.op \in {"stop_all", "kill_switch"} =>
          last.raised = NoExc /\ LinesOf(last.cmds) = OnePerUnit("stop")
    /\ last.op = "enable_all" =>
          last.raised = NoExc /\ LinesOf(last.cmds) = OnePerUnit("enable")

C11_Witness ==
    /\ last.op = "stop_all"
    /\ Len(units) = 2
    /\ units[1].key /= units[2].key
    /\ Len(last.cmds) = 2
    /\ last.cmds[1].line.target = <<units[1].key, ".service">>
    /\ last.cmds[2].line.target = <<units[2].key, ".service">>

-----------------------------------------------------------------------------
(* C12 *)

\* the Unit was built with the execution flags the constructor defaults to
DefaultFlags(u) ==
    /\ u.dry_run = Unit([name |-> u.name]).dry_run
    /\ u.verbose = Unit([name |-> u.name]).verbose

\* the systemctl verb of a lifecycle call
VerbOf(op) ==
    CASE op \in {"stop", "stop_service"}     -> "stop"
      [] op \in {"start", "start_service"}   -> "start"
      [] op \in {"enable", "enable_service"} -> "enable"
      [] op = "status"                       -> "status"

\* C12: stop() (and likewise start, enable, status) on a Unit constructed with
\* default execution flags runs 'sudo systemctl <verb> <name>.service' through
\* the host shell: the command is handed to subprocess.run, not skipped.
C12_DefaultUnitExecutes ==
    ((After("stop") \/ After("start") \/ After("enable") \/ After("status"))
        /\ DefaultFlags(Target) /\ last.raised = NoExc) =>
        /\ last.cmds /= <<>>
        /\ last.cmds[Len(last.cmds)].line = SystemctlLine(Target, VerbOf(last.op))
        /\ last.cmds[Len(last.cmds)].executed

-----------------------------------------------------------------------------
(* C19 *)

\* C19 as claimed: every lifecycle operation of a Unit performs at most one
\* external command invocation per call.
C19_AtMostOneCommand ==
    (last.op \in UnitOps /\ last.unit /= 0) => Len(last.cmds) <= 1

\* C19 as amended: load, unload, stop, restart, status, enable and disable
\* perform at most one external command invocation per call; setup performs at
\* most two (descriptor write, daemon-reload); start and reload_unit perform at
\* most three (start: write, daemon-reload, start; reload_unit: removal, write,
\* daemon-reload).
C19_CommandsPerCall ==
    (last.op \in UnitOps /\ last.unit /= 0) =>
        Len(last.cmds) <= (CASE last.op \in {"start", "reload"} -> 3
                             [] last.op = "setup" -> 2
                             [] OTHER -> 1)

C19_Witness ==
    /\ last.op = "reload"
    /\ last.unit /= 0
    /\ last.raised = NoExc
    /\ LinesOf(last.cmds) = <<RemoveLine(Target), WriteLine(Target), DaemonReloadLine>>
    /\ \A k \in 1..3 : last.cmds[k].executed

-----------------------------------------------------------------------------
(* C20 *)

\* the registered units a command of the call names: by descriptor path or by
\* service name (daemon-reload names none)
NamedBy(line) ==
    {k \in DOMAIN units :
        line.target \in {unit_abs_path(UnitAt(k)), UnitAt(k).service_file_name}}

\* the places of the registry whose unit some command of the call names
Processed == UNION {NamedBy(last.cmds[k].line) : k \in DOMAIN last.cmds}

BulkCalls ==
    {"start_all", "stop_all", "reload_all", "load_all", "unload_all", "enable_all",
     "disable_all", "kill_switch"}

\* C20: a bulk operation has no failure isolation.  When the per-unit method
\* fails for one unit, the error propagates out of the bulk call, every unit
\* before the failing one in registry order has been processed, and no unit
\* after it is processed.  For load_all() / unload_all() the failing unit is
\* one that is already loaded (or whose install directory is missing) / not
\* loaded: the units before it got their write / removal command, and the
\* failing unit and those after it got none.
C20_BulkFailFast ==
    (last.op \in BulkCalls /\ last.raised /= NoExc) =>
        /\ \E n \in 0..(Len(units) - 1) :
              /\ 1..n \subseteq Processed
              /\ Processed \subseteq 1..(n + 1)
              /\ last.op = "load_all" =>
                    /\ LinesOf(last.cmds) = [k \in 1..n |-> WriteLine(UnitAt(k))]
                    /\ last.raised \in {"FileExistsError", "ValueError"}
                    /\ last.raised = "FileExistsError" => Loaded(fs, UnitAt(n + 1))
              /\ last.op = "unload_all" =>
                    /\ LinesOf(last.cmds) = [k \in 1..n |-> RemoveLine(UnitAt(k))]
                    /\ last.raised = "FileNotFoundError"
                    /\ ~Loaded(fs, UnitAt(n + 1))

C20_Witness ==
    /\ last.op = "unload_all"
    /\ last.raised = "FileNotFoundError"
    /\ Len(units) = 2
    /\ LinesOf(last.cmds) = <<RemoveLine(UnitAt(1))>>
    /\ last.cmds[1].executed
    /\ ~Loaded(fs, UnitAt(1))
    /\ ~Loaded(fs, UnitAt(2))

-----------------------------------------------------------------------------
(* C13 *)

\* a flag of the call: given and true
Flag(kwargs, key) == key \in DOMAIN kwargs /\ kwargs[key]

\* C13: when the engine is configured dry-run, run() never executes the
\* command and returns the skipped sentinel (None, no exit code); when it is
\* not dry-run, run() executes the command exactly once, whatever its exit
\* status (no retry), and returns that result; an elevated call runs the
\* command line prefixed with sudo, any other call the command line as given.
C13_RunOnceOrSkip ==
    last.op = "execute" =>
        LET dry  == Flag(last.arg.kwargs, "dry_run")
            sudo == Flag(last.arg.kwargs, "sudo")
        IN /\ last.raised = NoExc
           /\ Len(last.cmds) = 1
           /\ last.cmds[1].line.argv =
                 (IF sudo THEN <<"sudo">> ELSE <<>>) \o <<"systemctl", "status">>
           /\ last.cmds[1].line.target = <<"web", ".service">>
           /\ dry => /\ ~last.cmds[1].executed
                     /\ last.cmds[1].result = None
                     /\ last.ret = None
           /\ ~dry => /\ last.cmds[1].executed
                      /\ last.cmds[1].result = Some(last.arg.outs[1])
                      /\ last.ret = Some(last.arg.outs[1])

C13_Witness ==
    /\ last.op = "execute"
    /\ Flag(last.arg.kwargs, "sudo")
    /\ ~Flag(last.arg.kwargs, "dry_run")
    /\ last.arg.outs[1].returncode /= 0
    /\ last.arg.outs[2].returncode = 0
    /\ Len(last.cmds) = 1
    /\ last.cmds[1].executed
    /\ last.ret = Some(last.arg.outs[1])

-----------------------------------------------------------------------------
(* C14 *)

-----------------------------------------------------------------------------
(* C15 *)

\* the lines of a descriptor that give a key
LinesFor(text, key) ==
    SelectSeq(text, LAMBDA l : Len(l) >= 2 /\ l[1] = key /\ l[2] = "=")

\* the line of an optional field: there, with the value, exactly when the
\* field is set and not empty
OptionalLine(text, key, o) ==
    LinesFor(text, key) = IF o /= None /\ o[1] /= <<>> THEN << <<key, "=">> \o o[1] >>
                          ELSE <<>>

\* the line of a command: there, with the command string, exactly when the
\* command is set
CommandLine(text, key, o) ==
    LinesFor(text, key) = IF o /= None THEN << <<key, "=">> \o o[1].command_str >>
                          ELSE <<>>

-----------------------------------------------------------------------------
(* C16 *)

\* a text without the whitespace it ends in
DropTrailing(s) ==
    LET black == {k \in DOMAIN s : s[k] \notin {" ", "\n", "\t"}}
    IN IF black = {} THEN <<>>
       ELSE SubSeq(s, 1, CHOOSE k \in black : \A j \in black : k >= j)

\* the command string of an optional command
CommandString(o) == IF o = None THEN None ELSE Some(o[1].command_str)

\* the Unit just parsed was parsed from the descriptor generated from heap[i]
ParsedFrom(i) ==
    /\ last.op = "from_service_file"
    /\ last.raised = NoExc
    /\ i \in 1..Len(heap)
    /\ fs.files[CopyPath] = generate_service_file_data(heap[i])

\* two optional texts are the same: both unset or empty, or equal
SameText(o, p) == (~Truthy(o) /\ ~Truthy(p)) \/ o = p

\* C16 as claimed: parsing the text produced by generate_service_file_data()
\* with from_service_file recovers the exec_start and exec_stop command
\* strings, working_directory, restart, user and wanted_by exactly (an unset
\* field is recovered as unset), whatever the environment entries are.
C16_RoundTripExact ==
    \A i \in 1..Len(heap) : ParsedFrom(i) =>
        LET u == heap[i]
            p == heap[last.unit]
        IN /\ SameText(CommandString(u.exec_start), CommandString(p.exec_start))
           /\ SameText(CommandString(u.exec_stop), CommandString(p.exec_stop))
           /\ SameText(u.working_directory, p.working_directory)
           /\ SameText(u.restart, p.restart)
           /\ SameText(u.user, p.user)
           /\ p.wanted_by = u.wanted_by

\* what the round trip makes of an optional text / of a command string
Recovered(o) == IF ~Truthy(o) THEN None ELSE Some(DropTrailing(o[1]))

RecoveredCommand(o) ==
    IF o = None \/ DropTrailing(o[1]) = <<>> THEN None ELSE Some(DropTrailing(o[1]))

\* C16 as amended: the round trip recovers the exec_start and exec_stop
\* command strings, working_directory, restart, user and wanted_by with the
\* whitespace they end in removed, hence exactly when the value does not end in
\* whitespace; a field that is unset or empty is recovered as unset; this
\* holds whatever the environment entries are.
C16_RoundTripTrimmed ==
    \A i \in 1..Len(heap) : ParsedFrom(i) =>
        LET u == heap[i]
            p == heap[last.unit]
        IN /\ CommandString(p.exec_start) = RecoveredCommand(CommandString(u.exec_start))
           /\ CommandString(p.exec_stop) = RecoveredCommand(CommandString(u.exec_stop))
           /\ p.working_directory = Recovered(u.working_directory)
           /\ p.restart = Recovered(u.restart)
           /\ p.user = Recovered(u.user)
           /\ p.wanted_by = DropTrailing(u.wanted_by)

C16_Witness ==
    /\ ParsedFrom(1)
    /\ last.unit = 2
    /\ Len(heap[1].environment) = 2
    /\ heap[1].exec_start /= None
    /\ heap[1].exec_stop = None
    /\ heap[1].restart = Some(<<"always">>)
    /\ heap[1].user = Some(<<"testuser">>)
    /\ heap[2].exec_start /= None
    /\ heap[2].exec_start[1].command_str = heap[1].exec_start[1].command_str
    /\ heap[2].exec_stop = None
    /\ heap[2].restart = heap[1].restart
    /\ heap[2].user = heap[1].user
    /\ heap[2].wanted_by = heap[1].wanted_by
    /\ heap[2].environment = <<>>

-----------------------------------------------------------------------------
(* C17 *)

\* a key of the record with a value that is not the empty string
Present(config, key) == key \in DOMAIN config /\ config[key] /= <<>>

\* every field but the commands, as the factory hands it on: a field of the
\* record unchanged, a missing optional field unset
CopiedFields(config, u) ==
    /\ u.name = config.name
    /\ \A key \in {"working_directory", "restart", "user", "after", "requires"} :
          u[key] = IF key \in DOMAIN config THEN Some(config[key]) ELSE None
    /\ u.service_type = IF "type" \in DOMAIN config THEN Some(config["type"]) ELSE None
    /\ u.description = IF "description" \in DOMAIN config THEN config["description"]
                       ELSE <<>>
    /\ u.wanted_by = IF "wanted_by" \in DOMAIN config THEN config["wanted_by"]
                     ELSE <<"multi-user.target">>
    /\ u.environment = IF "environment" \in DOMAIN config THEN config["environment"]
                       ELSE <<>>

\* C17 as claimed: from_dict copies every field present in the record into the
\* Unit unchanged, wraps a present exec_start / exec_stop string into a Command
\* carrying that string, maps every missing optional field to unset, and
\* issues no external command.
C17_FromDictWrapsPresent ==
    last.op = "from_dict" =>
        LET config == last.arg
            u      == heap[last.unit]
        IN /\ last.raised = NoExc
           /\ last.cmds = <<>>
           /\ CopiedFields(config, u)
           /\ \A key \in {"exec_start", "exec_stop"} :
                 IF key \in DOMAIN config
                 THEN u[key] /= None /\ u[key][1].command_str = config[key]
                 ELSE u[key] = None

\* C17 as amended: from_dict copies every field present in the record into the
\* Unit unchanged, wraps a present and non-empty exec_start / exec_stop string
\* into a Command carrying that string (not elevated, not dry-run), maps an
\* exec_start / exec_stop that is present but empty, and every missing
\* optional field, to unset, and issues no external command.
C17_FromDictWrapsNonEmpty ==
    last.op = "from_dict" =>
        LET config == last.arg
            u      == heap[last.unit]
        IN /\ last.raised = NoExc
           /\ last.cmds = <<>>
           /\ CopiedFields(config, u)
           /\ \A key \in {"exec_start", "exec_stop"} :
                 IF Present(config, key)
                 THEN /\ u[key] /= None
                      /\ u[key][1].command_str = config[key]
                      /\ ~u[key][1].sudo
                      /\ ~u[key][1].engine.dry_run
                 ELSE u[key] = None

C17_Witness ==
    /\ last.op = "from_dict"
    /\ Present(last.arg, "exec_start")
    /\ "exec_stop" \notin DOMAIN last.arg
    /\ Present(last.arg, "user")
    /\ "restart" \notin DOMAIN last.arg
    /\ heap[1].exec_start /= None
    /\ heap[1].exec_start[1].command_str = <<"echo", " ", "start">>
    /\ heap[1].exec_stop = None
    /\ heap[1].user = Some(<<"testuser">>)
    /\ heap[1].restart = None
    /\ last.cmds = <<>>

-----------------------------------------------------------------------------
(* C18 *)

\* a text without the whitespace it starts with
DropLeading(s) ==
    LET black == {k \in DOMAIN s : s[k] \notin {" ", "\n", "\t"}}
    IN IF black = {} THEN <<>>
       ELSE SubSeq(s, CHOOSE k \in black : \A j \in black : k <= j, Len(s))

\* the line without its indentation and the whitespace it ends in
Bare(line) == DropTrailing(DropLeading(line))

\* the line is a key=value line: it has an "=" and is not a comment
IsPair(line) ==
    /\ \E k \in DOMAIN line : line[k] = "="
    /\ ~(Bare(line) /= <<>> /\ Bare(line)[1] = "#")

\* the place of the first "=" of a key=value line
Equals(line) ==
    CHOOSE k \in DOMAIN Bare(line) :
        Bare(line)[k] = "=" /\ \A j \in 1..(k - 1) : Bare(line)[j] /= "="

\* the ways a key is written that differ in case only
Spellings(key) ==
    CASE key = "description"      -> {"description", "Description", "DESCRIPTION"}
      [] key = "execstart"        -> {"execstart", "ExecStart", "EXECSTART"}
      [] key = "execstop"         -> {"execstop", "ExecStop"}
      [] key = "workingdirectory" -> {"workingdirectory", "WorkingDirectory"}
      [] key = "restart"          -> {"restart", "Restart"}
      [] key = "user"             -> {"user", "User", "USER"}
      [] key = "wantedby"         -> {"wantedby", "WantedBy"}
      [] key = "after"            -> {"after", "After"}
      [] key = "requires"         -> {"requires", "Requires"}
      [] key = "type"             -> {"type", "Type"}

\* the lines of the file that give the key, in any spelling
Giving(content, key) ==
    {k \in DOMAIN content :
        /\ IsPair(content[k])
        /\ Equals(content[k]) = 2
        /\ Bare(content[k])[1] \in Spellings(key)}

\* the value the file gives the key: absent, or that of the last line giving it
Given(content, key) ==
    IF Giving(content, key) = {} THEN None
    ELSE LET k == CHOOSE k \in Giving(content, key) :
                      \A j \in Giving(content, key) : k >= j
         IN Some(SubSeq(Bare(content[k]), 3, Len(Bare(content[k]))))

\* C18: from_service_file takes the unit name from the file's base name
\* without extension (never from the content), skips comment lines and lines
\* without '=', matches keys case-insensitively regardless of section and
\* leading indentation (the last line giving a key wins), always yields an
\* empty environment even when Environment= lines are present, and fails with
\* InvalidDescriptor (ValueError) when no key=value line is found.
C18_ParseDescriptorFile ==
    (last.op = "from_service_file" /\ CopyPath \in DOMAIN fs.files) =>
        LET content == fs.files[CopyPath] IN
        IF \A k \in DOMAIN content : ~IsPair(content[k])
        THEN last.raised = "ValueError" /\ last.unit = 0
        ELSE LET p == heap[last.unit] IN
             /\ last.raised = NoExc
             /\ p.name = "copy"
             /\ p.environment = <<>>
             /\ p.description = IF Given(content, "description") = None THEN <<>>
                                ELSE Given(content, "description")[1]
             /\ p.wanted_by = IF Given(content, "wantedby") = None
                              THEN <<"multi-user.target">>
                              ELSE Given(content, "wantedby")[1]
             /\ CommandString(p.exec_start) =
                   IF Truthy(Given(content, "execstart"))
                   THEN Given(content, "execstart") ELSE None
             /\ CommandString(p.exec_stop) =
                   IF Truthy(Given(content, "execstop"))
                   THEN Given(content, "execstop") ELSE None
             /\ p.working_directory = Given(content, "workingdirectory")
             /\ p.restart = Given(content, "restart")
             /\ p.user = Given(content, "user")
             /\ p.after = Given(content, "after")
             /\ p.requires = Given(content, "requires")
             /\ p.service_type = Given(content, "type")

C18_Witness ==
    /\ last.op = "from_service_file"
    /\ last.raised = NoExc
    /\ CopyPath \in DOMAIN fs.files
    /\ fs.files[CopyPath] = HandWritten
    /\ heap[last.unit].name = "copy"
    /\ heap[last.unit].description = <<"Shouting">>
    /\ heap[last.unit].exec_start /= None
    /\ heap[last.unit].exec_start[1].command_str = <<"run", " ", "--level", "=", "3">>
    /\ heap[last.unit].user = Some(<<"root">>)
    /\ heap[last.unit].environment = <<>>

-----------------------------------------------------------------------------
(* C21 *)

\* the removal command of an unload() that returned was run by the host and
\* exited 0
RemovalSucceeded(call) ==
    /\ Len(call.cmds) = 1
    /\ call.cmds[1].executed
    /\ call.cmds[1].result[1].returncode = 0

\* a load() made right now on u raises nothing, whatever the host answers, and
\* leaves the unit loaded when its write exits 0
LoadAgainSucceeds(f, u) ==
    \A outs \in [1..1 -> EffectResults] :
        LET c == load(Call(f, outs), u) IN
        /\ c.raised = NoExc
        /\ Len(c.cmds) = 1
        /\ (c.cmds[1].result /= None /\ c.cmds[1].result[1].returncode = 0)
              => Loaded(c.fs, u)

\* a load() made right now on u leaves the unit loaded, whatever the host answers
LoadAgainLoads(f, u) ==
    \A outs \in [1..1 -> EffectResults] :
        LET c == load(Call(f, outs), u) IN c.raised = NoExc /\ Loaded(c.fs, u)

\* C21 as claimed: after Unit.unload() returns without raising, is_loaded is
\* false, the Unit keeps all its fields, and a following load() succeeds and
\* makes is_loaded true again.
C21_UnloadThenLoad ==
    [][(Calls("unload") /\ last'.raised = NoExc) =>
          LET u == heap[last'.unit] IN
          /\ ~Loaded(fs', u)
          /\ heap' = heap
          /\ LoadAgainLoads(fs', u)]_vars

\* C21 as amended: after Unit.unload() returns without raising on a unit that
\* is not dry-run, and the removal command it issued exited with status 0,
\* is_loaded is false, the Unit keeps all its fields, and a following load()
\* does not fail (not with AlreadyLoaded, not otherwise) and makes is_loaded
\* true again when the write it issues exits with status 0.
C21_UnloadThenLoadExecuted ==
    [][(Calls("unload") /\ last'.raised = NoExc /\ ~heap[last'.unit].dry_run
            /\ RemovalSucceeded(last')) =>
          LET u == heap[last'.unit] IN
          /\ ~Loaded(fs', u)
          /\ heap' = heap
          /\ LoadAgainSucceeds(fs', u)]_vars

C21_Witness ==
    /\ After("unload")
    /\ last.raised = NoExc
    /\ ~Target.dry_run
    /\ RemovalSucceeded(last)
    /\ ~Loaded(fs, Target)
    /\ LoadAgainSucceeds(fs, Target)
    /\ \E outs \in [1..1 -> EffectResults] : Loaded(load(Call(fs, outs), Target).fs, Target)

-----------------------------------------------------------------------------
(* C22 *)

\* the path install_root/name.service of a Unit
DescriptorPath(u) == <<u.systemd_dir, <<u.name, ".service">>>>

\* a command line that writes or removes a file
TouchesFile(line) ==
    line.argv \in {<<"sudo", "echo", "|", "sudo", "tee", ">", "/dev/null">>, <<"sudo", "rm">>}

\* C22: is_loaded is never cached.  At every call of load(), unload(), setup()
\* and reload_unit() the load state used is the presence of the file at
\* install_root/name.service at that moment, whoever created or removed it:
\* load() fails with AlreadyLoaded exactly when the file is there, unload() and
\* reload_unit() fail with NotLoaded exactly when it is not, setup() writes
\* only when it is not; and every file the call writes or removes is that path.
C22_LoadStateLive ==
    [][\A op \in {"load", "unload", "setup", "reload"} : Calls(op) =>
          LET u     == heap[last'.unit]
              there == DescriptorPath(u) \in DOMAIN fs.files
          IN /\ op = "load" => (last'.raised = "FileExistsError" <=> there)
             /\ op = "unload" => (last'.raised = "FileNotFoundError" <=> ~there)
             /\ op = "reload" => (last'.raised = "FileNotFoundError" <=> ~there)
             /\ op = "setup" =>
                   /\ there => LinesOf(last'.cmds) = <<DaemonReloadLine>>
                   /\ (~there /\ last'.raised = NoExc) =>
                         LinesOf(last'.cmds) = <<WriteLine(u), DaemonReloadLine>>
             /\ \A k \in DOMAIN last'.cmds :
                   TouchesFile(last'.cmds[k].line) =>
                       last'.cmds[k].line.target = DescriptorPath(u)]_vars

C22_Witness ==
    /\ After("load")
    /\ last.raised = "FileExistsError"
    /\ Target.systemd_dir = OtherDir
    /\ DescriptorPath(Target) \in DOMAIN fs.files
    /\ fs.files[DescriptorPath(Target)] = ForeignDescriptor

-----------------------------------------------------------------------------
(* C23 *)

\* the unit the call was made on is still what get returns for its name
StillRegistered == get(units, last.key) = Some(last.unit)

\* every entry of the registry is what get returns for its key
AllRegistered == \A k \in DOMAIN units : get(units, units[k].key) = Some(units[k].unit)

\* C23: no UnitManager lifecycle operation removes a unit from the registry:
\* the set of registered names never shrinks, a per-name or bulk lifecycle
\* operation leaves the registry as it is, and after unload_service(name) or
\* unload_all() every unloaded unit is still returned by get(name).
C23_RegistryNeverShrinks ==
    [][/\ \A k \in DOMAIN units : \E j \in DOMAIN units' : units'[j].key = units[k].key
       /\ (last = Idle /\ last'.op \in ServiceCalls \cup BulkCalls) => units' = units
       /\ (last = Idle /\ last'.op = "unload_service" /\ last'.unit /= 0) =>
             StillRegistered'
       /\ (last = Idle /\ last'.op = "unload_all") => AllRegistered']_vars

C23_Witness ==
    /\ last.op = "unload_service"
    /\ last.unit /= 0
    /\ last.raised = NoExc
    /\ RemovalSucceeded(last)
    /\ ~Loaded(fs, Target)
    /\ StillRegistered

-----------------------------------------------------------------------------
(* C24 *)

SimpleOps ==
    {"stop", "restart", "status", "enable", "disable", "stop_service", "restart_service",
     "enable_service", "disable_service"}

SimpleVerb(op) ==
    CASE op \in {"stop", "stop_service"}       -> "stop"
      [] op \in {"restart", "restart_service"} -> "restart"
      [] op = "status"                         -> "status"
      [] op \in {"enable", "enable_service"}   -> "enable"
      [] op \in {"disable", "disable_service"} -> "disable"

\* C24: stop(), restart(), status(), enable() and disable() each issue their
\* single elevated command whatever the unit's state, and when that command
\* exits non-zero the operation raises no error and the caller receives the
\* engine's result (exit status) to inspect.
C24_ResultReturned ==
    (last.op \in SimpleOps /\ last.unit /= 0) =>
        /\ last.raised = NoExc
        /\ LinesOf(last.cmds) = <<SystemctlLine(Target, SimpleVerb(last.op))>>
        /\ (last.cmds[1].executed /\ last.cmds[1].result[1].returncode /= 0) =>
              last.ret = last.cmds[1].result

-----------------------------------------------------------------------------
(* C25 *)

\* C25: the output of generate_service_file_data() has a blank line before the
\* [Service] header and before the [Install] header.
C25_BlankSeparators ==
    last.op = "generate_service_file_data" =>
        \A k \in DOMAIN last.ret[1] :
            last.ret[1][k] \in {<<"[Service]">>, <<"[Install]">>} =>
                k > 1 /\ last.ret[1][k - 1] = <<>>

-----------------------------------------------------------------------------
(* C26 *)

\* the Unit has the type oneshot and generates the line Type=oneshot
Oneshot(u) ==
    /\ u.service_type = Some(<<"oneshot">>)
    /\ LinesFor(generate_service_file_data(u), "Type") = << <<"Type", "=", "oneshot">> >>

\* C26: a Unit built by from_dict from a record without a type key, or by
\* from_service_file from a file without a Type line, has service_type
\* 'oneshot' and generates the line 'Type=oneshot'.
C26_TypeDefaultsOneshot ==
    /\ (last.op = "from_dict" /\ "type" \notin DOMAIN last.arg) => Oneshot(heap[last.unit])
    /\ (last.op = "from_service_file" /\ last.raised = NoExc
           /\ Given(fs.files[CopyPath], "type") = None) => Oneshot(heap[last.unit])

-----------------------------------------------------------------------------
(* C27 *)

\* C27: for a Unit with dry_run set the flag reaches every command the unit
\* issues: whatever lifecycle operation is called on it, directly or by name
\* through the manager, no command is executed and the filesystem is unchanged;
\* in particular load() on an unloaded dry-run unit never fails with
\* AlreadyLoaded and leaves the unit unloaded, so that the next load() does
\* not fail with it either.
C27_DryRunTouchesNothing ==
    [][(last = Idle /\ last'.op \in UnitOps \cup ServiceCalls /\ last'.unit /= 0
            /\ heap[last'.unit].dry_run) =>
          LET u == heap[last'.unit] IN
          /\ fs' = fs
          /\ \A k \in DOMAIN last'.cmds :
                ~last'.cmds[k].executed /\ last'.cmds[k].result = None
          /\ (last'.op \in {"load", "load_service"} /\ ~Loaded(fs, u)) =>
                /\ last'.raised /= "FileExistsError"
                /\ ~Loaded(fs', u)]_vars

C27_Witness ==
    /\ After("load")
    /\ Target.dry_run
    /\ last.raised = NoExc
    /\ LinesOf(last.cmds) = <<WriteLine(Target)>>
    /\ ~last.cmds[1].executed
    /\ ~Loaded(fs, Target)

====
